---- MODULE Spec2Model ----
(***************************************************************************)
(* play_ranking: per-player mean score (Ranking::mean), tie-aware top-K    *)
(* leaderboard (Ranking::top_rankings), the command-line driver (main) and *)
(* the timestamp cell deserializer (datetime_serde_format::deserialize).   *)
(*                                                                         *)
(* Scores are f64.  A finite f64 is modelled exactly, as sign * m * 2^e    *)
(* with m an odd natural number of at most 53 bits kept as little-endian   *)
(* limbs of 15 bits; every arithmetic operation computes the exact result  *)
(* and rounds it once to the nearest f64, ties to even, as IEEE 754 does.  *)
(***************************************************************************)
EXTENDS Integers, Sequences, FiniteSets

(***************************************************************************)
(* Natural numbers of any size: little-endian limbs, no leading zero limb. *)
(***************************************************************************)
LimbBits == 15

Radix == 2^LimbBits

Max2(a, b) == IF a >= b THEN a ELSE b

Min2(a, b) == IF a <= b THEN a ELSE b

Rest(a) == IF a = <<>> THEN <<>> ELSE Tail(a)

Low(a) == IF a = <<>> THEN 0 ELSE Head(a)

RECURSIVE BigStrip(_)
BigStrip(a) ==
    IF a = <<>> THEN <<>>
    ELSE IF a[Len(a)] = 0 THEN BigStrip(SubSeq(a, 1, Len(a) - 1))
    ELSE a

RECURSIVE BigAddC(_, _, _)
BigAddC(a, b, c) ==
    IF a = <<>> /\ b = <<>> THEN (IF c = 0 THEN <<>> ELSE <<c>>)
    ELSE LET t == Low(a) + Low(b) + c
         IN  <<t % Radix>> \o BigAddC(Rest(a), Rest(b), t \div Radix)

BigAdd(a, b) == BigAddC(a, b, 0)

\* a - b for a >= b
RECURSIVE BigSubB(_, _, _)
BigSubB(a, b, c) ==
    IF a = <<>> THEN <<>>
    ELSE LET t == Low(a) - Low(b) - c
         IN  IF t < 0 THEN <<t + Radix>> \o BigSubB(Rest(a), Rest(b), 1)
             ELSE <<t>> \o BigSubB(Rest(a), Rest(b), 0)

BigSub(a, b) == BigStrip(BigSubB(a, b, 0))

\* -1, 0, 1 as a < b, a = b, a > b
RECURSIVE BigCmpFrom(_, _, _)
BigCmpFrom(a, b, i) ==
    IF i = 0 THEN 0
    ELSE IF a[i] < b[i] THEN -1
    ELSE IF a[i] > b[i] THEN 1
    ELSE BigCmpFrom(a, b, i - 1)

BigCmp(a, b) ==
    IF Len(a) < Len(b) THEN -1
    ELSE IF Len(a) > Len(b) THEN 1
    ELSE BigCmpFrom(a, b, Len(a))

\* a * k for 0 <= k <= Radix
RECURSIVE BigMulC(_, _, _)
BigMulC(a, k, c) ==
    IF a = <<>> THEN (IF c = 0 THEN <<>> ELSE <<c>>)
    ELSE LET t == Head(a) * k + c
         IN  <<t % Radix>> \o BigMulC(Tail(a), k, t \div Radix)

BigMulSmall(a, k) == IF k = 0 THEN <<>> ELSE BigMulC(a, k, 0)

\* quotient and remainder of a by d, 1 <= d <= Radix; the limbs are taken
\* from the most significant one down
RECURSIVE BigDivR(_, _, _, _, _)
BigDivR(a, d, i, r, q) ==
    IF i = 0 THEN [q |-> BigStrip(q), r |-> r]
    ELSE LET t == r * Radix + a[i]
         IN  BigDivR(a, d, i - 1, t % d, <<t \div d>> \o q)

BigDivSmall(a, d) == BigDivR(a, d, Len(a), 0, <<>>)

RECURSIVE BitLenSmall(_)
BitLenSmall(n) == IF n = 0 THEN 0 ELSE 1 + BitLenSmall(n \div 2)

BigBitLen(a) ==
    IF a = <<>> THEN 0 ELSE LimbBits * (Len(a) - 1) + BitLenSmall(a[Len(a)])

BigShl(a, n) ==
    IF a = <<>> THEN <<>>
    ELSE [i \in 1..(n \div LimbBits) |-> 0] \o BigMulC(a, 2^(n % LimbBits), 0)

\* a shifted right by n bits: the quotient, and whether a one was shifted out
BigShr(a, n) ==
    LET w == Min2(n \div LimbBits, Len(a))
        d == BigDivSmall(SubSeq(a, w + 1, Len(a)), 2^(n % LimbBits))
    IN  [q |-> d.q,
         lost |-> d.r # 0 \/ \E i \in 1..w : a[i] # 0]

BigOdd(a) == Low(a) % 2 = 1

RECURSIVE TrailingZeros(_)
TrailingZeros(n) == IF n % 2 = 1 THEN 0 ELSE 1 + TrailingZeros(n \div 2)

\* the number of trailing zero bits of a # 0
RECURSIVE BigTrailingZeros(_)
BigTrailingZeros(a) ==
    IF Head(a) = 0 THEN LimbBits + BigTrailingZeros(Tail(a))
    ELSE TrailingZeros(Head(a))

(***************************************************************************)
(* f64                                                                     *)
(***************************************************************************)
MantissaBits == 53

\* the exponent of the least significant bit of the smallest subnormal
MinExp == -1074

\* finite values are below 2^MaxExp
MaxExp == 1024

GuardBits == MantissaBits + 7

NaN == [k |-> "nan", s |-> 0, m |-> <<>>, e |-> 0]

Inf(s) == [k |-> "inf", s |-> s, m |-> <<>>, e |-> 0]

Zero(s) == [k |-> "fin", s |-> s, m |-> <<>>, e |-> 0]

\* sign * m * 2^e with the trailing zero bits of m moved into e
Canon(s, m, e) ==
    IF m = <<>> THEN Zero(s)
    ELSE LET z == BigTrailingZeros(m)
         IN  [k |-> "fin", s |-> s, m |-> BigShr(m, z).q, e |-> e + z]

IsNaN(x) == x.k = "nan"

IsFinite(x) == x.k = "fin"

IsZero(x) == x.k = "fin" /\ x.m = <<>>

\* The f64 nearest to sign * (m + f) * 2^e, where 0 <= f < 1 and f > 0 iff
\* sticky: round to nearest, ties to even; overflow gives an infinity.
RoundF64(s, m, e, sticky) ==
    LET sh == Max2(Max2(BigBitLen(m) - MantissaBits, MinExp - e), 0)
    IN  IF sh = 0 THEN Canon(s, m, e)
        ELSE LET t    == BigShr(m, sh - 1)
                 half == BigOdd(t.q)
                 q    == BigShr(t.q, 1).q
                 up   == half /\ (sticky \/ t.lost \/ BigOdd(q))
                 r    == IF up THEN BigAdd(q, <<1>>) ELSE q
             IN  IF BigBitLen(r) + e + sh > MaxExp THEN Inf(s)
                 ELSE Canon(s, r, e + sh)

\* n as f64, for an integer n of magnitude below Radix
FromInt(n) == IF n < 0 THEN Canon(1, <<-n>>, 0) ELSE Canon(0, BigStrip(<<n>>), 0)

\* f64::MAX = (2^53 - 1) * 2^971
F64_MAX ==
    [k |-> "fin", s |-> 0,
     m |-> <<Radix - 1, Radix - 1, Radix - 1, 2^(MantissaBits - 3 * LimbBits) - 1>>,
     e |-> MaxExp - MantissaBits]

\* x / (d as f64) for an integer d, 1 <= d < Radix
FDivInt(x, d) ==
    IF x.k # "fin" \/ x.m = <<>> THEN x
    ELSE LET p == 2 * MantissaBits
             D == BigDivSmall(BigShl(x.m, p), d)
         IN  RoundF64(x.s, D.q, x.e - p, D.r # 0)

\* x * (n as f64) for an integer n, 0 <= n < Radix
FMulInt(x, n) ==
    IF x.k = "nan" THEN NaN
    ELSE IF x.k = "inf" THEN (IF n = 0 THEN NaN ELSE x)
    ELSE RoundF64(x.s, BigMulSmall(x.m, n), x.e, FALSE)

\* the exact sum of two finite values, as [s, m, e] with value (-1)^s * m * 2^e
ExactAdd(x, y) ==
    LET e0 == Min2(x.e, y.e)
        mx == BigShl(x.m, x.e - e0)
        my == BigShl(y.m, y.e - e0)
        c  == BigCmp(mx, my)
    IN  IF x.s = y.s THEN [s |-> x.s, m |-> BigAdd(mx, my), e |-> e0]
        ELSE IF c = 0 THEN [s |-> 0, m |-> <<>>, e |-> 0]
        ELSE IF c > 0 THEN [s |-> x.s, m |-> BigSub(mx, my), e |-> e0]
        ELSE [s |-> y.s, m |-> BigSub(my, mx), e |-> e0]

\* the position of the leading one of a finite non-zero value
Top(x) == BigBitLen(x.m) + x.e

\* x + y; an operand more than GuardBits binary places below the other one
\* lies within a quarter of the last place of it and leaves it unchanged
FAdd(x, y) ==
    IF x.k = "nan" \/ y.k = "nan" THEN NaN
    ELSE IF x.k = "inf" /\ y.k = "inf" THEN (IF x.s = y.s THEN x ELSE NaN)
    ELSE IF x.k = "inf" THEN x
    ELSE IF y.k = "inf" THEN y
    ELSE IF ~IsZero(x) /\ ~IsZero(y) /\ Top(x) - Top(y) > GuardBits THEN x
    ELSE IF ~IsZero(x) /\ ~IsZero(y) /\ Top(y) - Top(x) > GuardBits THEN y
    ELSE LET t == ExactAdd(x, y)
         IN  RoundF64(t.s, t.m, t.e, FALSE)

\* f64::round: to the nearest integer, halves away from zero
FRound(x) ==
    IF x.k # "fin" \/ x.e >= 0 THEN x
    ELSE LET t == BigShr(x.m, (-x.e) - 1)
             q == BigShr(t.q, 1).q
         IN  Canon(x.s, IF BigOdd(t.q) THEN BigAdd(q, <<1>>) ELSE q, 0)

\* f64::partial_cmp: "lt", "eq", "gt", or "none" when either side is NaN
PartialCmp(x, y) ==
    IF x.k = "nan" \/ y.k = "nan" THEN "none"
    ELSE IF IsZero(x) /\ IsZero(y) THEN "eq"
    ELSE IF x.s # y.s THEN (IF x.s = 1 THEN "lt" ELSE "gt")
    ELSE LET mag == IF x.k = "inf" THEN (IF y.k = "inf" THEN 0 ELSE 1)
                    ELSE IF y.k = "inf" THEN -1
                    ELSE IF IsZero(x) THEN -1
                    ELSE IF IsZero(y) THEN 1
                    ELSE IF Top(x) # Top(y) THEN (IF Top(x) > Top(y) THEN 1 ELSE -1)
                    ELSE LET e0 == Min2(x.e, y.e)
                         IN  BigCmp(BigShl(x.m, x.e - e0), BigShl(y.m, y.e - e0))
         IN  IF mag = 0 THEN "eq"
             ELSE IF (mag > 0) = (x.s = 0) THEN "gt" ELSE "lt"

\* the == of f64
FEq(x, y) == PartialCmp(x, y) = "eq"

(***************************************************************************)
(* formatters.rs: the timestamp cell.  A cell is a sequence of characters. *)
(***************************************************************************)
Digits == <<"0", "1", "2", "3", "4", "5", "6", "7", "8", "9">>

IsDigit(c) == \E i \in 1..Len(Digits) : Digits[i] = c

DigitVal(c) == (CHOOSE i \in 1..Len(Digits) : Digits[i] = c) - 1

\* the items of "%Y/%m/%d %H:%M:%S": a numeric field with the most digits it
\* takes, a literal character, or white space
DATETIME_FORMAT ==
    << [t |-> "num", f |-> "year",   w |-> 4], [t |-> "lit", c |-> "/"],
       [t |-> "num", f |-> "month",  w |-> 2], [t |-> "lit", c |-> "/"],
       [t |-> "num", f |-> "day",    w |-> 2], [t |-> "space"],
       [t |-> "num", f |-> "hour",   w |-> 2], [t |-> "lit", c |-> ":"],
       [t |-> "num", f |-> "minute", w |-> 2], [t |-> "lit", c |-> ":"],
       [t |-> "num", f |-> "second", w |-> 2] >>

\* s.matches(":").count()
RECURSIVE CountColons(_)
CountColons(s) ==
    IF s = <<>> THEN 0
    ELSE (IF Head(s) = ":" THEN 1 ELSE 0) + CountColons(Tail(s))

\* while colon_count < 2 { s.push_str(":00"); colon_count += 1; }
RECURSIVE PadColons(_, _)
PadColons(s, colon_count) ==
    IF colon_count < 2 THEN PadColons(s \o <<":", "0", "0">>, colon_count + 1)
    ELSE s

RECURSIVE TrimStart(_)
TrimStart(s) ==
    IF s # <<>> /\ Head(s) = " " THEN TrimStart(Tail(s)) ELSE s

\* the digits at the head of s, at most w of them: their count and value
RECURSIVE ScanNumber(_, _, _, _)
ScanNumber(s, w, n, v) ==
    IF n < w /\ s # <<>> /\ IsDigit(Head(s))
    THEN ScanNumber(Tail(s), w, n + 1, 10 * v + DigitVal(Head(s)))
    ELSE [n |-> n, v |-> v, rest |-> s]

\* chrono's format::parse over the items from the i-th on: the fields read,
\* or an error when the input does not match
RECURSIVE ParseItems(_, _, _, _)
ParseItems(s, items, i, fields) ==
    IF i > Len(items)
    THEN (IF s = <<>> THEN [ok |-> TRUE, val |-> fields] ELSE [ok |-> FALSE, val |-> "TooLong"])
    ELSE LET it == items[i]
         IN  IF it.t = "lit"
             THEN IF s = <<>> THEN [ok |-> FALSE, val |-> "TooShort"]
                  ELSE IF Head(s) # it.c THEN [ok |-> FALSE, val |-> "Invalid"]
                  ELSE ParseItems(Tail(s), items, i + 1, fields)
             ELSE IF it.t = "space"
             THEN ParseItems(TrimStart(s), items, i + 1, fields)
             ELSE LET t == TrimStart(s)
                      n == ScanNumber(t, it.w, 0, 0)
                  IN  IF t = <<>> THEN [ok |-> FALSE, val |-> "TooShort"]
                      ELSE IF n.n = 0 THEN [ok |-> FALSE, val |-> "Invalid"]
                      ELSE ParseItems(n.rest, items, i + 1,
                                      [fields EXCEPT ![it.f] = n.v])

IsLeap(y) == (y % 4 = 0 /\ y % 100 # 0) \/ y % 400 = 0

DaysIn(y, m) ==
    IF m = 2 THEN (IF IsLeap(y) THEN 29 ELSE 28)
    ELSE IF m \in {4, 6, 9, 11} THEN 30 ELSE 31

\* Parsed::to_naive_datetime: the fields must name a date and a time of day
\* (second 60 is a leap second)
ValidDateTime(f) ==
    /\ f.month \in 1..12
    /\ f.day \in 1..DaysIn(f.year, f.month)
    /\ f.hour \in 0..23
    /\ f.minute \in 0..59
    /\ f.second \in 0..60

\* NaiveDateTime::parse_from_str(&s, DATETIME_FORMAT)
parse_from_str(s, fmt) ==
    LET r == ParseItems(s, fmt, 1,
                        [year |-> 0, month |-> 0, day |-> 0,
                         hour |-> 0, minute |-> 0, second |-> 0])
    IN  IF ~r.ok THEN r
        ELSE IF ~ValidDateTime(r.val) THEN [ok |-> FALSE, val |-> "OutOfRange"]
        ELSE r

\* datetime_serde_format::deserialize; the local time zone is taken to have
\* exactly one instant for the parsed date and time, so that the unwrap of
\* from_local_datetime succeeds
deserialize(cell) == parse_from_str(PadColons(cell, CountColons(cell)), DATETIME_FORMAT)

(***************************************************************************)
(* lib.rs: PlayLog, Ranking::mean, Ranking::top_rankings                   *)
(***************************************************************************)
PlayLog(player_id, score, create_timestamp) ==
    [player_id |-> player_id, score |-> score, create_timestamp |-> create_timestamp]

\* Find looking at the last record of res only
Find_LastOnly(res, id) ==
    IF res # << >> /\ res[Len(res)].player_id = id THEN Len(res) ELSE 0

\* res.iter_mut().find(|players| players.id() == element.id()): the index of
\* the first record of res with the element's id, 0 when there is none
Find(res, id) ==
    IF \E i \in 1..Len(res) : res[i].player_id = id
    THEN CHOOSE i \in 1..Len(res) :
            /\ res[i].player_id = id
            /\ \A j \in 1..(i - 1) : res[j].player_id # id
    ELSE 0

\* play_counts.entry(id).or_insert(0)
OrInsert0(play_counts, id) ==
    [p \in DOMAIN play_counts \cup {id} |->
        IF p \in DOMAIN play_counts THEN play_counts[p] ELSE 0]

\* MeanScore with term1 not weighted by k
MeanScore_Unweighted(target_score, element_score, k) ==
    FAdd(FDivInt(target_score, k + 1), FDivInt(element_score, k + 1))

\* term1 + term2 of the running mean, k plays already folded in
MeanScore(target_score, element_score, k) ==
    LET term1 == FMulInt(FDivInt(target_score, k + 1), k)
        term2 == FDivInt(element_score, k + 1)
    IN  FAdd(term1, term2)

\* MeanStep putting a player seen for the first time at the front of res
MeanStep_PushFront(st, element) ==
    LET idx == Find(st.res, element.player_id)
    IN  IF idx # 0
        THEN LET target == st.res[idx]
                 k      == st.play_counts[target.player_id]
             IN  [play_counts |-> [st.play_counts EXCEPT ![target.player_id] = @ + 1],
                  res |-> [st.res EXCEPT
                             ![idx].score = MeanScore(target.score, element.score, k)]]
        ELSE [play_counts |-> [p \in DOMAIN st.play_counts \cup {element.player_id} |->
                                 IF p = element.player_id THEN 1 ELSE st.play_counts[p]],
              res |-> <<element>> \o st.res]

\* one pass of the loop of mean over element
MeanStep(st, element) ==
    LET idx == Find(st.res, element.player_id)
    IN  IF idx # 0
        THEN LET target == st.res[idx]
                 counts == OrInsert0(st.play_counts, target.player_id)
                 k      == counts[target.player_id]
             IN  [play_counts |-> [counts EXCEPT ![target.player_id] = @ + 1],
                  res |-> [st.res EXCEPT
                             ![idx].score = MeanScore(target.score, element.score, k)]]
        ELSE [play_counts |-> [p \in DOMAIN st.play_counts \cup {element.player_id} |->
                                 IF p = element.player_id THEN 1 ELSE st.play_counts[p]],
              res |-> Append(st.res, element)]

RECURSIVE MeanLoop(_, _, _)
MeanLoop(st, self, i) ==
    IF i > Len(self) THEN st ELSE MeanLoop(MeanStep(st, self[i]), self, i + 1)

\* Ranking::mean
mean(self) == MeanLoop([play_counts |-> << >>, res |-> << >>], self, 1).res

\* the comparator of sort_by: b.score().partial_cmp(&a.score()).unwrap(),
\* "none" standing for the unwrap of None
Compare(a, b) == PartialCmp(b.score, a.score)

\* InsertTail moving x past the records it is equal to as well: not stable
RECURSIVE InsertTail_Unstable(_, _, _)
InsertTail_Unstable(v, x, j) ==
    IF j = 0 THEN [panic |-> FALSE, v |-> <<x>> \o v]
    ELSE LET c == Compare(x, v[j])
         IN  IF c = "none" THEN [panic |-> TRUE, v |-> v]
             ELSE IF c \in {"lt", "eq"} THEN InsertTail_Unstable(v, x, j - 1)
             ELSE [panic |-> FALSE,
                   v |-> SubSeq(v, 1, j) \o <<x>> \o SubSeq(v, j + 1, Len(v))]

\* x put into the sorted sequence v: x moves towards the front past every
\* record it is less than by Compare; j records of v are still to be passed
RECURSIVE InsertTail(_, _, _)
InsertTail(v, x, j) ==
    IF j = 0 THEN [panic |-> FALSE, v |-> <<x>> \o v]
    ELSE LET c == Compare(x, v[j])
         IN  IF c = "none" THEN [panic |-> TRUE, v |-> v]
             ELSE IF c = "lt" THEN InsertTail(v, x, j - 1)
             ELSE [panic |-> FALSE,
                   v |-> SubSeq(v, 1, j) \o <<x>> \o SubSeq(v, j + 1, Len(v))]

\* records.sort_by(..): the stable sort of a slice, by insertion
RECURSIVE SortBy(_, _, _)
SortBy(self, i, sorted) ==
    IF i > Len(self) THEN [panic |-> FALSE, v |-> sorted]
    ELSE LET r == InsertTail(sorted, self[i], Len(sorted))
         IN  IF r.panic THEN r ELSE SortBy(self, i + 1, r.v)

\* RankStep breaking at top_rank whether or not the score ties
RankStep_NoTies(st, i, element, top_rank) ==
    LET score == FRound(element.score)
    IN  IF i >= top_rank
        THEN [st EXCEPT !.stop = TRUE]
        ELSE LET rank == IF FEq(st.prev_score, score) THEN st.prev_rank ELSE i + 1
             IN  [stop |-> FALSE,
                  prev_score |-> score,
                  prev_rank |-> rank,
                  res |-> Append(st.res, [rank |-> rank, log |-> element])]

\* RankStep without prev_rank = rank
RankStep_StalePrevRank(st, i, element, top_rank) ==
    LET score == FRound(element.score)
    IN  IF i >= top_rank /\ ~FEq(st.prev_score, score)
        THEN [st EXCEPT !.stop = TRUE]
        ELSE LET rank == IF FEq(st.prev_score, score) THEN st.prev_rank ELSE i + 1
             IN  [stop |-> FALSE,
                  prev_score |-> score,
                  prev_rank |-> st.prev_rank,
                  res |-> Append(st.res, [rank |-> rank, log |-> element])]

\* one pass of the loop of top_rankings over the record at 0-based position i
RankStep(st, i, element, top_rank) ==
    LET score == FRound(element.score)
    IN  IF i >= top_rank /\ ~FEq(st.prev_score, score)
        THEN [st EXCEPT !.stop = TRUE]
        ELSE LET rank == IF FEq(st.prev_score, score) THEN st.prev_rank ELSE i + 1
             IN  [stop |-> FALSE,
                  prev_score |-> score,
                  prev_rank |-> rank,
                  res |-> Append(st.res, [rank |-> rank, log |-> element])]

RECURSIVE RankLoop(_, _, _, _)
RankLoop(st, sorted, i, top_rank) ==
    IF i >= Len(sorted) \/ st.stop THEN st
    ELSE RankLoop(RankStep(st, i, sorted[i + 1], top_rank), sorted, i + 1, top_rank)

\* Ranking::top_rankings: Ok(res), or the panic of the comparator; no path
\* of the function returns Err
top_rankings(self, top_rank) ==
    LET sorted == SortBy(self, 1, << >>)
    IN  IF sorted.panic THEN [outcome |-> "panic", res |-> << >>]
        ELSE [outcome |-> "Ok",
              res |-> RankLoop([stop |-> FALSE, prev_score |-> F64_MAX,
                                prev_rank |-> 0, res |-> << >>],
                               sorted.v, 0, top_rank).res]

(***************************************************************************)
(* Bounds and inputs                                                       *)
(***************************************************************************)
\* the most rows read in one run
MaxLen == 3

\* the largest top_rank a caller passes besides the one of main
MaxTopRank == 3

\* the most rows read in one run of the timestamp specification
MaxRows == 2

\* top_rankings(10) of main
MainTopRank == 10

Players == {"a", "b"}

Scores == {FromInt(-1), FromInt(6), FromInt(7), F64_MAX, NaN}

TopRanks == 0..MaxTopRank \cup {MainTopRank}

Date(day) == <<"2", "0", "2", "1", "/", "0", "1", "/", "0", Digits[day + 1]>>

\* the timestamp cell of the n-th row of a run: a day of its own, at noon
RowCell(n) == Date(n) \o <<" ", "1", "2", ":", "0", "0">>

(***************************************************************************)
(* State                                                                   *)
(***************************************************************************)
VARIABLES
    pc,        \* where the run is: "read", "mean", "ranked", "done", "aborted"
    records,   \* the rows read so far, as PlayLogs
    errors,    \* the 0-based numbers of the rows logged as failing to parse
    cells,     \* the timestamp cells of the rows taken from the reader
    means,     \* records.mean(), once computed
    input,     \* the vector top_rankings was called on
    top_rank,  \* the top_rank it was called with
    ranked,    \* what the call came to
    stdout     \* the lines printed

vars == <<pc, records, errors, cells, means, input, top_rank, ranked, stdout>>

NoCall == [outcome |-> "none", res |-> << >>]

Init ==
    /\ pc = "read"
    /\ records = << >>
    /\ errors = << >>
    /\ cells = << >>
    /\ means = << >>
    /\ input = << >>
    /\ top_rank = 0
    /\ ranked = NoCall
    /\ stdout = << >>

\* main: a row that deserializes is pushed
RowOk(cell, player_id, score) ==
    /\ pc = "read"
    /\ deserialize(cell).ok
    /\ records' = Append(records, PlayLog(player_id, score, deserialize(cell).val))
    /\ cells' = Append(cells, cell)
    /\ UNCHANGED <<pc, errors, means, input, top_rank, ranked, stdout>>

\* main: a row that does not is logged with its number and skipped
RowErr(cell) ==
    /\ pc = "read"
    /\ ~deserialize(cell).ok
    /\ errors' = Append(errors, Len(cells))
    /\ cells' = Append(cells, cell)
    /\ UNCHANGED <<pc, records, means, input, top_rank, ranked, stdout>>

\* let records = records.mean();
CallMean ==
    /\ pc = "read"
    /\ means' = mean(records)
    /\ pc' = "mean"
    /\ UNCHANGED <<records, errors, cells, input, top_rank, ranked, stdout>>

\* top_rankings on the aggregated records, as main and the doc test call it
RankMeans(k) ==
    /\ pc = "mean"
    /\ input' = means
    /\ top_rank' = k
    /\ ranked' = top_rankings(means, k)
    /\ pc' = "ranked"
    /\ UNCHANGED <<records, errors, cells, means, stdout>>

\* top_rankings on the records as read, as the test play_log_top10 calls it
RankRecords(k) ==
    /\ pc = "read"
    /\ input' = records
    /\ top_rank' = k
    /\ ranked' = top_rankings(records, k)
    /\ pc' = "ranked"
    /\ UNCHANGED <<records, errors, cells, means, stdout>>

\* main: the header and one line per entry, the score rounded
Output(res) ==
    <<"rank,player_id,mean_score">> \o
    [i \in 1..Len(res) |-> <<res[i].rank, res[i].log.player_id, FRound(res[i].log.score)>>]

PrintRanking ==
    /\ pc = "ranked"
    /\ ranked.outcome = "Ok"
    /\ stdout' = Output(ranked.res)
    /\ pc' = "done"
    /\ UNCHANGED <<records, errors, cells, means, input, top_rank, ranked>>

\* a panic unwinds through main: nothing is printed
Abort ==
    /\ pc = "ranked"
    /\ ranked.outcome # "Ok"
    /\ pc' = "aborted"
    /\ UNCHANGED <<records, errors, cells, means, input, top_rank, ranked, stdout>>

ReadRow ==
    /\ Len(cells) < MaxLen
    /\ \E player_id \in Players, score \in Scores :
          RowOk(RowCell(Len(cells) + 1), player_id, score)

Rank == \E k \in TopRanks : RankMeans(k) \/ RankRecords(k)

Next == ReadRow \/ CallMean \/ Rank \/ PrintRanking \/ Abort

Spec == Init /\ [][Next]_vars

(***************************************************************************)
(* The reading loop of main over rows whose timestamp cell is of any form  *)
(***************************************************************************)
Dates ==
    { Date(2),
      <<"2", "0", "2", "1", "/", "0", "2", "/", "3", "0">>,
      <<"2", "0", "2", "1", "/", "1", "/", "2">> }

Times ==
    { << >>,
      <<" ">>,
      <<" ", "7">>,
      <<" ", "1", "2">>,
      <<" ", "2", "4">>,
      <<" ", "1", "2", ":", "3", "0">>,
      <<" ", "1", "2", ":", "6", "0">>,
      <<"1", "2", ":", "3", "0">>,
      <<" ", "1", "2", ":", "3", "0", ":", "4", "5">>,
      <<" ", "1", "2", ":", "3", "0", ":", "4", "5", ":", "0", "0">> }

Cells == { d \o t : d \in Dates, t \in Times }

ReadGoodRow ==
    /\ Len(cells) < MaxRows
    /\ \E cell \in Cells : RowOk(cell, "a", FromInt(6))

ReadBadRow ==
    /\ Len(cells) < MaxRows
    /\ \E cell \in Cells : RowErr(cell)

NextTime == ReadGoodRow \/ ReadBadRow

SpecTime == Init /\ [][NextTime]_vars

(***************************************************************************)
(* Properties                                                              *)
(***************************************************************************)
Ids(xs) == { xs[i].player_id : i \in 1..Len(xs) }

\* the positions of the records of player p in xs
Plays(xs, p) == { i \in 1..Len(xs) : xs[i].player_id = p }

FirstSeen(xs, p) == CHOOSE i \in Plays(xs, p) : \A j \in Plays(xs, p) : i <= j

UniqueIds(xs) == \A i, j \in 1..Len(xs) : xs[i].player_id = xs[j].player_id => i = j

\* an integer score of magnitude below 2^52
IsSmallInt(x) == IsFinite(x) /\ x.e >= 0 /\ (IsZero(x) \/ Top(x) < MantissaBits)

\* the exact sum of the scores of xs at the positions from i on that are in P
RECURSIVE SumFrom(_, _, _)
SumFrom(xs, P, i) ==
    IF i > Len(xs) THEN [s |-> 0, m |-> << >>, e |-> 0]
    ELSE IF i \in P THEN ExactAdd(xs[i].score, SumFrom(xs, P, i + 1))
    ELSE SumFrom(xs, P, i + 1)

\* the largest magnitude among the integer scores of xs at the positions P
MaxAbs(xs, P) ==
    LET i == CHOOSE i \in P :
                \A j \in P : BigCmp(BigShl(xs[i].score.m, xs[i].score.e),
                                    BigShl(xs[j].score.m, xs[j].score.e)) >= 0
    IN  BigShl(xs[i].score.m, xs[i].score.e)

\* whether a * 2^ea <= b * 2^eb for naturals a and b
DyadicLeq(a, ea, b, eb) ==
    LET e0 == Min2(ea, eb)
    IN  BigCmp(BigShl(a, ea - e0), BigShl(b, eb - e0)) <= 0

\* the mean of integer scores with sum t is the integer n-th part of it
MeanIsInteger(t, n) == BigDivSmall(BigShl(t.m, t.e), n).r = 0

IntegerMean(t, n) == Canon(t.s, BigDivSmall(BigShl(t.m, t.e), n).q, 0)

\* the record of player p in the aggregated records
MeanOf(p) == means[FirstSeen(means, p)]

\* |score * n - t| <= 4 * n * n * 2^-53 * a: score is within
\* 4 * n * 2^-53 * a of the n-th part of t
WithinRounding(score, t, n, a) ==
    LET d == ExactAdd([s |-> score.s, m |-> BigMulSmall(score.m, n), e |-> score.e],
                      [t EXCEPT !.s = 1 - t.s])
    IN  DyadicLeq(d.m, d.e + MantissaBits, BigMulSmall(a, 4 * n * n), 0)

\* score * n = t: score is exactly the n-th part of t
Exactly(score, t, n) == WithinRounding(score, t, n, << >>)

C2_OnePerPlayerFirstSeenOrder ==
    pc = "mean" =>
        /\ UniqueIds(means)
        /\ Ids(means) = Ids(records)
        /\ \A i, j \in 1..Len(means) :
              i < j => FirstSeen(records, means[i].player_id)
                         < FirstSeen(records, means[j].player_id)

C2_Witness ==
    /\ pc = "mean"
    /\ Len(means) = 2
    /\ Len(records) > Len(means)
    /\ records[1].player_id = "b"
    /\ records[2].player_id = "b"

\* the sorted sequence top_rankings iterates over
Sorted == SortBy(input, 1, << >>).v

Logs(res) == [i \in 1..Len(res) |-> res[i].log]

Rounded(xs, i) == FRound(xs[i].score)

\* the 0-based position i of the sorted sequence belongs in the top K
Included(xs, i, K) ==
    \/ i < K
    \/ K - 1 < Len(xs) /\ FEq(Rounded(xs, i + 1), Rounded(xs, K))

\* C3: for top_rank >= 1 the result holds exactly the records of the sorted
\* sequence at the positions below top_rank or tied, by rounded score, with
\* the record at position top_rank - 1; it has at least min(top_rank, length)
\* entries, and is the whole sorted sequence when top_rank exceeds the length.
C3_TopKWithTies ==
    (pc = "ranked" /\ ranked.outcome = "Ok" /\ top_rank >= 1) =>
        LET n == Len(ranked.res)
        IN  /\ n = Cardinality({ i \in 0..(Len(Sorted) - 1) : Included(Sorted, i, top_rank) })
            /\ n <= Len(Sorted)
            /\ Logs(ranked.res) = SubSeq(Sorted, 1, n)
            /\ \A i \in 0..(n - 1) : Included(Sorted, i, top_rank)
            /\ n >= Min2(top_rank, Len(input))
            /\ top_rank > Len(input) => Logs(ranked.res) = Sorted

\* a tie at the cutoff carries the result past top_rank, and a record is left out
C3_Witness ==
    /\ pc = "ranked"
    /\ ranked.outcome = "Ok"
    /\ top_rank >= 1
    /\ Len(ranked.res) > top_rank
    /\ Len(ranked.res) < Len(input)

AllFinite(xs) == \A i \in 1..Len(xs) : IsFinite(xs[i].score)

\* C4 as claimed: competition ranking of the result, the first entry at rank 1
\* (stated for top_rank >= 1; a call with top_rank = 0 is the case of C5).
C4_CompetitionRanking ==
    (/\ pc = "ranked" /\ ranked.outcome = "Ok" /\ top_rank >= 1
     /\ AllFinite(input) /\ ranked.res # << >>) =>
        /\ ranked.res[1].rank = 1
        /\ \A i \in 2..Len(ranked.res) :
              ranked.res[i].rank =
                 IF FEq(Rounded(Logs(ranked.res), i), Rounded(Logs(ranked.res), i - 1))
                 THEN ranked.res[i - 1].rank
                 ELSE i

\* C5 as claimed: top_rank = 0, or an empty input, gives Ok of an empty result.
C5_EmptyResult ==
    (pc = "ranked" /\ AllFinite(input) /\ (top_rank = 0 \/ input = << >>)) =>
        /\ ranked.outcome = "Ok"
        /\ ranked.res = << >>

\* the position in the input of the i-th record of the result (a record is
\* known by its timestamp, each row having its own)
InputPos(i) ==
    CHOOSE k \in 1..Len(input) :
        input[k].create_timestamp = ranked.res[i].log.create_timestamp

\* C6 as claimed: records of the result whose scores round to the same integer
\* keep the relative order they had in the input.
C6_StableByRoundedScore ==
    (pc = "ranked" /\ ranked.outcome = "Ok") =>
        \A i, j \in 1..Len(ranked.res) :
            (i < j /\ FEq(Rounded(Logs(ranked.res), i), Rounded(Logs(ranked.res), j)))
                => InputPos(i) < InputPos(j)

\* C6 amended: the result is in descending order of the raw scores, and
\* records whose raw scores are equal keep the relative order they had in the
\* input; records that tie only after rounding are in descending raw order.
C6_StableByRawScore ==
    (pc = "ranked" /\ ranked.outcome = "Ok") =>
        \A i, j \in 1..Len(ranked.res) :
            i < j =>
                /\ PartialCmp(ranked.res[i].log.score, ranked.res[j].log.score) \in {"gt", "eq"}
                /\ FEq(ranked.res[i].log.score, ranked.res[j].log.score)
                      => InputPos(i) < InputPos(j)

\* two records that tie only after rounding, the one with the higher raw
\* score first although it came later in the input
C6_Witness ==
    /\ pc = "ranked"
    /\ ranked.outcome = "Ok"
    /\ \E i, j \in 1..Len(ranked.res) :
          /\ i < j
          /\ FEq(Rounded(Logs(ranked.res), i), Rounded(Logs(ranked.res), j))
          /\ PartialCmp(ranked.res[i].log.score, ranked.res[j].log.score) = "gt"
          /\ InputPos(i) > InputPos(j)

\* a comparison of the sort fails: two or more records, one of them NaN
ComparisonFails(xs) == Len(xs) >= 2 /\ \E i \in 1..Len(xs) : IsNaN(xs[i].score)

\* C7 as claimed: a failed comparison comes back as the Err of the Result and
\* nothing is printed; every other call is Ok.
C7_ErrOnFailedComparison ==
    pc \in {"ranked", "done", "aborted"} =>
        IF ComparisonFails(input)
        THEN ranked.outcome = "Err" /\ stdout = << >>
        ELSE ranked.outcome = "Ok"

\* C8: the ranks of the result never decrease along it.
C8_RanksNonDecreasing ==
    (pc = "ranked" /\ ranked.outcome = "Ok") =>
        \A i \in 1..(Len(ranked.res) - 1) : ranked.res[i + 1].rank >= ranked.res[i].rank

\* a shared rank followed by a higher one
C8_Witness ==
    /\ pc = "ranked"
    /\ ranked.outcome = "Ok"
    /\ Len(ranked.res) >= 3
    /\ ranked.res[2].rank = ranked.res[1].rank
    /\ ranked.res[3].rank > ranked.res[2].rank

\* C9: mean leaves a sequence with one record per player as it is, and so
\* mean of the aggregated records is the aggregated records.
C9_MeanIdempotent ==
    pc = "mean" =>
        /\ UniqueIds(records) => means = records
        /\ mean(means) = means

\* mean was applied to a sequence of two players, one record each
C9_Witness ==
    /\ pc = "mean"
    /\ UniqueIds(records)
    /\ Len(records) = 2

\* the timestamp of the row read from the n-th cell, when it was pushed
RowErrors(n) == { i \in 1..Len(errors) : errors[i] < n - 1 }

Accepted(n, hour, minute, second) ==
    /\ \A i \in 1..Len(errors) : errors[i] # n - 1
    /\ LET r == records[n - Cardinality(RowErrors(n))].create_timestamp
       IN  r.hour = hour /\ r.minute = minute /\ r.second = second

\* C10 as claimed: a bare date reads as 00:00:00, a date and hour as HH:00:00,
\* a date, hour and minute as HH:MM:00; none is rejected.
C10_MissingTimeFilledWithZero ==
    \A n \in 1..Len(cells) :
        /\ cells[n] = Date(2) => Accepted(n, 0, 0, 0)
        /\ cells[n] = Date(2) \o <<" ", "1", "2">> => Accepted(n, 12, 0, 0)
        /\ cells[n] = Date(2) \o <<" ", "1", "2", ":", "3", "0">> => Accepted(n, 12, 30, 0)
====
